---- MODULE Spec2Model ----
(***************************************************************************)
(* Model of resspect.time_domain_SNPCC.SNPCCPhotometry: the survey object  *)
(* (bazin_header, min_epoch, max_epoch, rmag_lim), the output file system  *)
(* it writes daily snapshot files to, and its three operations             *)
(* get_lim_mjds, create_daily_file and build_one_epoch.                    *)
(*                                                                         *)
(* Python strings are sequences of one-character strings, so that string   *)
(* concatenation, the `in` substring test, str() and splitting a line into *)
(* fields are computed and not assumed.  Python values that reach str()    *)
(* are tagged records [t, v] with t in {"int", "str"}.                     *)
(***************************************************************************)
EXTENDS Integers, Sequences, FiniteSets, TLC

VARIABLES
    self,       \* the SNPCCPhotometry instance: a record of its attributes
    dirs,       \* directories that exist in the output file system
    files,      \* output file system: path -> content (a string)
    pc,         \* "idle", or "build" while build_one_epoch is in its loop
    frame,      \* locals of the running build_one_epoch call
    outcome,    \* how the last finished call ended: "ok" or the exception
    last_call,  \* the last finished call (history, read by no action)
    repeated,   \* the last finished call repeated the one before it
    ncalls      \* number of calls started so far

vars == <<self, dirs, files, pc, frame, outcome, last_call, repeated, ncalls>>

\* Number of calls of the three operations in one behaviour.
MaxCalls == 3

(***************************************************************************)
(* Python built-ins used by the module                                     *)
(***************************************************************************)

\* t in s, for strings
Contains(s, t) ==
    \E i \in 0..(Len(s) - Len(t)) : SubSeq(s, i + 1, i + Len(t)) = t

Digit(d) ==
    CASE d = 0 -> "0" [] d = 1 -> "1" [] d = 2 -> "2" [] d = 3 -> "3"
      [] d = 4 -> "4" [] d = 5 -> "5" [] d = 6 -> "6" [] d = 7 -> "7"
      [] d = 8 -> "8" [] d = 9 -> "9"

RECURSIVE StrNat(_)
StrNat(n) ==
    IF n < 10 THEN <<Digit(n)>> ELSE StrNat(n \div 10) \o <<Digit(n % 10)>>

\* str() of an int
StrInt(n) == IF n < 0 THEN <<"-">> \o StrNat(-n) ELSE StrNat(n)

\* str() of a bool
StrBool(b) == IF b THEN <<"T","r","u","e">> ELSE <<"F","a","l","s","e">>

PyInt(n) == [t |-> "int", v |-> n]
PyStr(s) == [t |-> "str", v |-> s]

\* str() of a tagged value
Str(x) ==
    CASE x.t = "int" -> StrInt(x.v)
      [] x.t = "bool" -> StrBool(x.v)
      [] x.t = "str" -> x.v

\* min() and max() of a non-empty list of numbers
Min(s) == CHOOSE m \in {s[k] : k \in DOMAIN s} : \A k \in DOMAIN s : m <= s[k]
Max(s) == CHOOSE m \in {s[k] : k \in DOMAIN s} : \A k \in DOMAIN s : m >= s[k]

\* OpenW with the mode 'a' in place of 'w': an existing file keeps its content
OpenW_Append(fs, path) ==
    [p \in DOMAIN fs \cup {path} |-> IF p \in DOMAIN fs THEN fs[p] ELSE <<>>]

\* open(path, 'w'): the file exists afterwards and is empty
OpenW(fs, path) ==
    [p \in DOMAIN fs \cup {path} |-> IF p = path THEN <<>> ELSE fs[p]]

\* open(path, 'a'): the file exists afterwards, its content is kept
OpenA(fs, path) == IF path \in DOMAIN fs THEN fs ELSE OpenW(fs, path)

\* param_file.write(s) on an open file
Write(fs, path, s) == [fs EXCEPT ![path] = @ \o s]

\* directory part of a path: everything up to its last "/"
DirOf(path) ==
    LET slashes == {k \in DOMAIN path : path[k] = "/"}
    IN  IF slashes = {} THEN <<>>
        ELSE SubSeq(path, 1, CHOOSE k \in slashes : \A j \in slashes : j <= k)

(***************************************************************************)
(* The attributes set by __init__                                          *)
(***************************************************************************)

\* self.bazin_header as __init__ sets it (with the cost columns)
BazinHeaderInit ==
    <<"i","d"," ","r","e","d","s","h","i","f","t"," ","t","y","p","e",
        " ","c","o","d","e"," ","o","r","i","g","_","s","a","m","p","l",
        "e"," ","q","u","e","r","y","a","b","l","e"," ">> \o
    <<"l","a","s","t","_","r","m","a","g"," ","c","o","s","t","_","4",
        "m"," ","c","o","s","t","_","8","m"," ","g","A"," ","g","B"," ",
        "g","t","0"," ">> \o
    <<"g","t","f","a","l","l"," ","g","t","r","i","s","e"," ","r","A",
        " ","r","B"," ","r","t","0"," ","r","t","f","a","l","l"," ","r",
        "t","r","i","s","e"," ","i","A"," ">> \o
    <<"i","B"," ","i","t","0"," ","i","t","f","a","l","l"," ","i","t",
        "r","i","s","e"," ","z","A"," ","z","B"," ","z","t","0"," ","z",
        "t","f","a","l","l"," ","z","t","r","i","s","e","\n">>

\* the header create_daily_file assigns when get_cost is false
BazinHeaderNoCost ==
    <<"i","d"," ","r","e","d","s","h","i","f","t"," ","t","y","p","e"," ","c","o","d","e"," ">> \o
    <<"o","r","i","g","_","s","a","m","p","l","e"," ","q","u","e","r","y","a","b","l","e"," ">> \o
    <<"l","a","s","t","_","r","m","a","g"," ","g","A"," ","g","B"," ","g","t","0"," ">> \o
    <<"g","t","f","a","l","l"," ","g","t","r","i","s","e"," ","r","A",
        " ","r","B"," ","r","t","0"," ","r","t","f","a","l","l"," ","r",
        "t","r","i","s","e"," ","i","A"," ">> \o
    <<"i","B"," ","i","t","0"," ","i","t","f","a","l","l"," ","i","t",
        "r","i","s","e"," ","z","A"," ","z","B"," ","z","t","0"," ","z",
        "t","f","a","l","l"," ","z","t","r","i","s","e","\n">>

InitMaxEpoch == 56352
InitMinEpoch == 56171
InitRmagLim == 24

SelfInit ==
    [bazin_header |-> BazinHeaderInit,
     max_epoch    |-> InitMaxEpoch,
     min_epoch    |-> InitMinEpoch,
     rmag_lim     |-> InitRmagLim]

(***************************************************************************)
(* The raw data directories and the LightCurve collaborator                *)
(* (resspect.LightCurve: load_snpcc_lc, fit_bazin_all, check_queryable,    *)
(* calc_exp_time).  A light curve carries what the collaborator would      *)
(* compute from it: the number of points fit_bazin_all needs to fit every  *)
(* filter, the answer of criterion 2 and the exposure time per mirror      *)
(* diameter.                                                               *)
(***************************************************************************)

Mjd(offs) == [k \in DOMAIN offs |-> InitMinEpoch + offs[k]]

LightCurve(id, offs, fit_need, fit_empty, last_mag, qry2, exp) ==
    [id |-> PyInt(id), redshift |-> PyStr(<<"0",".","3">>), sntype |-> PyStr(<<"I","a">>),
     sncode |-> PyInt(0), sample |-> PyStr(<<"t","e","s","t">>),
     mjd |-> Mjd(offs), fit_need |-> fit_need, fit_empty |-> fit_empty,
     last_mag |-> PyInt(last_mag), qry2 |-> qry2, exp |-> exp]

\* four points up to day 0, five up to day 1
lcA == LightCurve(1, <<0, 0, 0, 0, 1, 3>>, 0, FALSE, 23, FALSE,
                  (4 :> 7300 @@ 8 :> 7100 @@ 10 :> 7000))
\* five points at day 0, but the fit needs six
lcB == LightCurve(2, <<0, 0, 0, 0, 0, 1>>, 6, FALSE, 23, TRUE,
                  (4 :> 7200 @@ 8 :> 7200 @@ 10 :> 7200))
\* exactly five points at day 0
lcC == LightCurve(3, <<0, 0, 0, 0, 0, 2>>, 0, FALSE, 25, FALSE,
                  (4 :> 7199 @@ 8 :> 100 @@ 10 :> 50))
\* enough points, and fit_bazin_all leaves bazin_features empty
lcD == LightCurve(4, <<0, 0, 0, 0, 0>>, 0, TRUE, 23, TRUE,
                  (4 :> 100 @@ 8 :> 100 @@ 10 :> 100))
lcE == LightCurve(10, <<1, 2, 3>>, 0, FALSE, 23, TRUE,
                  (4 :> 100 @@ 8 :> 100 @@ 10 :> 100))
lcF == LightCurve(11, <<2, 2, 2, 5>>, 0, FALSE, 23, TRUE,
                  (4 :> 100 @@ 8 :> 100 @@ 10 :> 100))
lcG == LightCurve(20, <<2, 3>>, 0, FALSE, 23, TRUE,
                  (4 :> 100 @@ 8 :> 100 @@ 10 :> 100))

RawDir == <<"r","a","w","/">>
FewDir == <<"f","e","w","/">>
BadDir == <<"b","a","d","/">>
EmptyDir == <<"e","m","p","t","y","/">>
RawDirs == {RawDir, FewDir, BadDir, EmptyDir}

\* os.listdir(raw_data_dir)
ListDir(d) ==
    CASE d = RawDir ->
            <<<<"D","E","S","_","S","N","0","0","1",".","D","A","T">>, <<"R","E","A","D","M","E",".","t","x","t">>, <<"D","E","S","_","S","N","0","0","2",".","D","A","T">>,
              <<"D","E","S","_","S","N","0","0","3",".","D","A","T">>, <<"D","E","S","_","S","N","0","0","4",".","D","A","T">>>>
      [] d = FewDir -> <<<<"D","E","S","_","S","N","0","1","0",".","D","A","T">>, <<"D","E","S","_","S","N","0","1","1",".","D","A","T">>>>
      [] d = BadDir ->
            <<<<"D","E","S","_","S","N","0","2","0",".","D","A","T">>, <<"D","E","S","_","S","N",".","L","I","S","T">>, <<"D","E","S","_","S","N","0","2","1",".","D","A","T">>>>
      [] d = EmptyDir -> <<<<"R","E","A","D","M","E",".","t","x","t">>>>

\* the raw files by path; ok is FALSE for a file load_snpcc_lc cannot parse
RawFiles ==
    {[path |-> <<"r","a","w","/","D","E","S","_","S","N","0","0","1",".","D","A","T">>, ok |-> TRUE, lc |-> lcA],
     [path |-> <<"r","a","w","/","D","E","S","_","S","N","0","0","2",".","D","A","T">>, ok |-> TRUE, lc |-> lcB],
     [path |-> <<"r","a","w","/","D","E","S","_","S","N","0","0","3",".","D","A","T">>, ok |-> TRUE, lc |-> lcC],
     [path |-> <<"r","a","w","/","D","E","S","_","S","N","0","0","4",".","D","A","T">>, ok |-> TRUE, lc |-> lcD],
     [path |-> <<"f","e","w","/","D","E","S","_","S","N","0","1","0",".","D","A","T">>, ok |-> TRUE, lc |-> lcE],
     [path |-> <<"f","e","w","/","D","E","S","_","S","N","0","1","1",".","D","A","T">>, ok |-> TRUE, lc |-> lcF],
     [path |-> <<"b","a","d","/","D","E","S","_","S","N","0","2","0",".","D","A","T">>, ok |-> TRUE, lc |-> lcG],
     [path |-> <<"b","a","d","/","D","E","S","_","S","N",".","L","I","S","T">>, ok |-> FALSE, lc |-> lcG],
     [path |-> <<"b","a","d","/","D","E","S","_","S","N","0","2","1",".","D","A","T">>, ok |-> TRUE, lc |-> lcE]}

\* lc.load_snpcc_lc(path): the file read, or a load error when ok is FALSE
load_snpcc_lc(path) == CHOOSE f \in RawFiles : f.path = path

Filters == <<"g", "r", "i", "z">>
BazinParams == <<"A", "B", "t0", "tfall", "trise">>
PyNone == PyStr(<<"N","o","n","e">>)

\* lc.fit_bazin_all() on the photometry left in lc: one value per filter and
\* Bazin parameter, the sentinel 'None' for the parameters of a filter whose
\* fit failed
fit_bazin_all(lc, photometry) ==
    IF lc.fit_empty THEN <<>>
    ELSE [k \in 1..(Len(Filters) * Len(BazinParams)) |->
            IF Len(photometry) < lc.fit_need
               /\ Filters[((k - 1) \div Len(BazinParams)) + 1] = "r"
            THEN PyNone ELSE PyInt(k)]

\* lc.check_queryable(mjd, filter_lim, criteria, days_since_last_obs)
check_queryable(lc, filter_lim, criteria) ==
    IF criteria = 1 THEN lc.last_mag.v <= filter_lim ELSE lc.qry2

\* lc.calc_exp_time(telescope_diam, telescope_name, SNR): the value stored
\* in lc.exp_time[telescope_name]
calc_exp_time(lc, telescope_diam) == lc.exp[telescope_diam]

(***************************************************************************)
(* get_lim_mjds                                                            *)
(***************************************************************************)

\* lc_list = [elem for elem in file_list_all if 'DES_SN' in elem]
RecognizedFiles(file_list_all) ==
    LET IsLightCurve(elem) == Contains(elem, <<"D","E","S","_","S","N">>)
    IN  SelectSeq(file_list_all, IsLightCurve)

\* UpdateEpochs keeping the limits of the last object in place of the
\* extremes over all objects so far
UpdateEpochs_Last(slf, min_day, max_day) ==
    [slf EXCEPT !.min_epoch = min_day[Len(min_day)],
                !.max_epoch = max_day[Len(max_day)]]

\* self.min_epoch = min(min_day); self.max_epoch = max(max_day)
UpdateEpochs(slf, min_day, max_day) ==
    [slf EXCEPT !.min_epoch = Min(min_day), !.max_epoch = Max(max_day)]

\* the loop of get_lim_mjds from element i on, and its return statement;
\* min() of an empty list raises ValueError
RECURSIVE LimLoop(_, _, _, _, _, _)
LimLoop(slf, raw_data_dir, lc_list, i, min_day, max_day) ==
    IF i > Len(lc_list)
    THEN IF min_day = <<>>
         THEN [self |-> slf, status |-> "ValueError", ret |-> <<>>]
         ELSE [self |-> slf, status |-> "ok",
               ret |-> <<Min(min_day), Max(max_day)>>]
    ELSE LET f == load_snpcc_lc(raw_data_dir \o lc_list[i])
         IN  IF ~f.ok
             THEN [self |-> slf, status |-> "LoadError", ret |-> <<>>]
             ELSE IF f.lc.mjd = <<>>
             THEN [self |-> slf, status |-> "ValueError", ret |-> <<>>]
             ELSE LET mn == Append(min_day, Min(f.lc.mjd))
                      mx == Append(max_day, Max(f.lc.mjd))
                  IN  LimLoop(UpdateEpochs(slf, mn, mx), raw_data_dir,
                              lc_list, i + 1, mn, mx)

get_lim_mjds(slf, raw_data_dir) ==
    LimLoop(slf, raw_data_dir, RecognizedFiles(ListDir(raw_data_dir)),
            1, <<>>, <<>>)

(***************************************************************************)
(* create_daily_file                                                       *)
(***************************************************************************)

Bazin == <<"B","a","z","i","n">>

\* features_file = output_dir + 'day_' + str(day) + '.dat'
DailyFileName(output_dir, day) ==
    output_dir \o <<"d","a","y","_">> \o StrInt(day) \o <<".","d","a","t">>

\* The whole call on the program state st = [self, dirs, files].  With
\* another header than 'Bazin' the file is opened for writing and then
\* self.header is read, an attribute __init__ does not set.
create_daily_file(st, output_dir, day, header, get_cost) ==
    LET made == st.dirs \cup {output_dir}
        features_file == DailyFileName(output_dir, day)
        opened == OpenW(st.files, features_file)
    IN  IF header = Bazin
        THEN LET hdr == IF get_cost THEN st.self.bazin_header
                        ELSE BazinHeaderNoCost
             IN  [st |-> [self |-> [st.self EXCEPT !.bazin_header = hdr],
                          dirs |-> made,
                          files |-> Write(opened, features_file, hdr)],
                  status |-> "ok"]
        ELSE IF "header" \in DOMAIN st.self
        THEN [st |-> [self |-> st.self, dirs |-> made,
                      files |-> Write(opened, features_file, st.self.header)],
              status |-> "ok"]
        ELSE [st |-> [self |-> st.self, dirs |-> made, files |-> opened],
              status |-> "AttributeError"]

(***************************************************************************)
(* build_one_epoch                                                         *)
(***************************************************************************)

SNPCC == <<"S","N","P","C","C">>

\* The check of the telescope names.  Python evaluates the `or` of the two
\* header tests before `and get_cost`: tel_names[0] and, when the first
\* name is in the header, tel_names[1] are read whatever get_cost is.
TelNamesCheck(bazin_header, tel_names, get_cost) ==
    IF Len(tel_names) < 1 THEN "IndexError"
    ELSE IF ~Contains(bazin_header, <<"c","o","s","t","_">> \o tel_names[1])
    THEN (IF get_cost THEN "ValueError" ELSE "ok")
    ELSE IF Len(tel_names) < 2 THEN "IndexError"
    ELSE IF ~Contains(bazin_header, <<"c","o","s","t","_">> \o tel_names[2])
    THEN (IF get_cost THEN "ValueError" ELSE "ok")
    ELSE "ok"

\* features_file = time_domain_dir + fname_pattern[0] + str(day_of_survey)
\*                 + fname_pattern[1]
FeaturesFileName(time_domain_dir, day_of_survey, fname_pattern) ==
    time_domain_dir \o fname_pattern[1] \o StrInt(day_of_survey)
        \o fname_pattern[2]

\* Lines 209-225: the locals of the call when it enters its loop.
BuildBeginEff(slf, args) ==
    LET chk == TelNamesCheck(slf.bazin_header, args.tel_names, args.get_cost)
    IN  IF chk # "ok" THEN [status |-> chk]
        ELSE [status |-> "running",
              fr |-> [args |-> args,
                      lc_list |-> RecognizedFiles(ListDir(args.raw_data_dir)),
                      features_file |->
                          FeaturesFileName(args.time_domain_dir,
                                           args.day_of_survey,
                                           args.fname_pattern),
                      i |-> 1, count_surv |-> 0, loads |-> 0]]

\* sum(photo_flag) > 4
SurvThreshold == 4
\* EnoughPoints with the comparison off by one
EnoughPoints_AtLeast(n) == n >= SurvThreshold
EnoughPoints(n) == n > SurvThreshold

\* lc.photometry[photo_flag], photo_flag = lc.photometry['mjd'] <= today
Truncate(mjd, today) ==
    LET Observed(m) == m <= today IN SelectSeq(mjd, Observed)

\* len(lc.bazin_features) > 0 and 'None' not in lc.bazin_features
FitComplete(bazin_features) ==
    /\ Len(bazin_features) > 0
    /\ ~\E k \in DOMAIN bazin_features : bazin_features[k] = PyNone

\* lc.exp_time after the loop over the telescopes: the last diameter given
\* for a name is the one kept
ExpTime(lc, tel_sizes, tel_names) ==
    [item \in {tel_names[k] : k \in DOMAIN tel_names} |->
        LET last == CHOOSE k \in DOMAIN tel_names :
                        /\ tel_names[k] = item
                        /\ \A j \in DOMAIN tel_names :
                               tel_names[j] = item => j <= k
        IN  calc_exp_time(lc, tel_sizes[last])]

ExpCap == 7200
\* BelowCap with the cap itself allowed
BelowCap_Inclusive(t) == t <= ExpCap
BelowCap(t) == t < ExpCap

\* lc.queryable when the record is written
Queryable(lc, slf, args) ==
    IF args.get_cost
    THEN LET exp_time == ExpTime(lc, args.tel_sizes, args.tel_names)
         IN  \E k \in DOMAIN args.tel_names :
                 BelowCap(exp_time[args.tel_names[k]])
    ELSE check_queryable(lc, slf.rmag_lim, args.queryable_criteria)

RECURSIVE Concat(_)
Concat(parts) ==
    IF parts = <<>> THEN <<>> ELSE Head(parts) \o Concat(Tail(parts))

\* the cost fields of a record, written only when get_cost is true
CostFields(lc, args) ==
    IF args.get_cost
    THEN LET exp_time == ExpTime(lc, args.tel_sizes, args.tel_names)
         IN  Concat([k \in DOMAIN args.tel_names |->
                        StrInt(exp_time[args.tel_names[k]]) \o <<" ">>])
    ELSE <<>>

\* the text the five write() calls of one record produce
RecordText(lc, queryable, args, bazin_features) ==
    Str(lc.id) \o <<" ">> \o Str(lc.redshift) \o <<" ">>
        \o Str(lc.sntype) \o <<" ">>
        \o Str(lc.sncode) \o <<" ">> \o Str(lc.sample) \o <<" ">>
        \o StrBool(queryable) \o <<" ">>
        \o Str(lc.last_mag) \o <<" ">>
        \o CostFields(lc, args)
        \o Concat([k \in 1..(Len(bazin_features) - 1) |->
                      Str(bazin_features[k]) \o <<" ">>])
        \o Str(bazin_features[Len(bazin_features)]) \o <<"\n">>

\* One iteration of the loop over lc_list, on the program state st and the
\* locals fr: status is "running" when the iteration ends normally and the
\* exception when it raises.
BuildStepEff(st, fr) ==
    LET args == fr.args
        next == [fr EXCEPT !.i = @ + 1]
        Raise(e, f) == [st |-> st, fr |-> f, status |-> e]
    IN  IF args.dataset # SNPCC THEN Raise("ValueError", fr)
        ELSE
        LET f == load_snpcc_lc(args.raw_data_dir \o fr.lc_list[fr.i])
            loaded == [next EXCEPT !.loads = @ + 1]
        IN  IF ~f.ok THEN Raise("LoadError", [fr EXCEPT !.loads = @ + 1])
            ELSE
            LET lc == f.lc
                today == args.day_of_survey + st.self.min_epoch
                photometry == Truncate(lc.mjd, today)
            IN  IF ~EnoughPoints(Len(photometry))
                THEN [st |-> st, fr |-> loaded, status |-> "running"]
                ELSE IF args.feature_method # Bazin
                THEN Raise("ValueError", [fr EXCEPT !.loads = @ + 1])
                ELSE
                LET bazin_features == fit_bazin_all(lc, photometry)
                IN  IF ~FitComplete(bazin_features)
                    THEN [st |-> st, fr |-> loaded, status |-> "running"]
                    ELSE IF DirOf(fr.features_file) \notin st.dirs
                    THEN Raise("FileNotFoundError",
                               [fr EXCEPT !.loads = @ + 1,
                                          !.count_surv = @ + 1])
                    ELSE
                    [st |-> [st EXCEPT !.files =
                                Write(OpenA(st.files, fr.features_file),
                                      fr.features_file,
                                      RecordText(lc, Queryable(lc, st.self, args),
                                                 args, bazin_features))],
                     fr |-> [loaded EXCEPT !.count_surv = @ + 1],
                     status |-> "running"]

\* the loop from the locals fr on, to the end of the call
RECURSIVE BuildLoop(_, _)
BuildLoop(st, fr) ==
    IF fr.i > Len(fr.lc_list) THEN [st |-> st, status |-> "ok"]
    ELSE LET r == BuildStepEff(st, fr)
         IN  IF r.status = "running" THEN BuildLoop(r.st, r.fr)
             ELSE [st |-> r.st, status |-> r.status]

\* a whole call of build_one_epoch on the program state st
build_one_epoch(st, args) ==
    LET b == BuildBeginEff(st.self, args)
    IN  IF b.status # "running" THEN [st |-> st, status |-> b.status]
        ELSE BuildLoop(st, b.fr)

(***************************************************************************)
(* The calls a client makes                                                *)
(***************************************************************************)

OutDir == <<"o","u","t","/">>
\* day indexes passed to the calls
Days == {0, 1}

\* a header selector other than 'Bazin': a raw header string
RawHeader == <<"i","d"," ","q","u","e","r","y","a","b","l","e"," ","g","A","\n">>

CreateArgs ==
    [output_dir : {OutDir}, day : Days, header : {Bazin, RawHeader},
     get_cost : BOOLEAN]

DefaultPattern == <<<<"d","a","y","_">>, <<".","d","a","t">>>>
OtherPattern == <<<<"e","p","o","c","h","_">>, <<".","c","s","v">>>>

Tel(get_cost, tel_sizes, tel_names) ==
    [get_cost |-> get_cost, tel_sizes |-> tel_sizes, tel_names |-> tel_names]

DefaultTel == Tel(FALSE, <<4, 8>>, <<<<"4","m">>, <<"8","m">>>>)
CostTel == Tel(TRUE, <<4, 8>>, <<<<"4","m">>, <<"8","m">>>>)

\* telescope configurations: the default ones with and without cost, a
\* third telescope, a second name the header lacks, names that are only
\* prefixes of the header's, one telescope, no telescope
TelConfigs ==
    {DefaultTel, CostTel,
     Tel(TRUE, <<4, 8, 10>>, <<<<"4","m">>, <<"8","m">>, <<"1","0","m">>>>),
     Tel(TRUE, <<4, 10>>, <<<<"4","m">>, <<"1","0","m">>>>),
     Tel(TRUE, <<4, 8>>, <<<<"4">>, <<"8">>>>),
     Tel(TRUE, <<4>>, <<<<"4","m">>>>),
     Tel(FALSE, <<>>, <<>>)}

Args(raw_data_dir, day, feature_method, dataset, criteria, tel, pattern) ==
    [raw_data_dir |-> raw_data_dir, day_of_survey |-> day,
     time_domain_dir |-> OutDir, feature_method |-> feature_method,
     dataset |-> dataset, queryable_criteria |-> criteria,
     get_cost |-> tel.get_cost, tel_sizes |-> tel.tel_sizes,
     tel_names |-> tel.tel_names, fname_pattern |-> pattern]

OtherMethod == <<"M","a","l","a","n","c","h","e","v">>
OtherDataset == <<"P","L","A","s","T","i","C","C">>

\* The calls of build_one_epoch: the default arguments with one argument
\* changed, and the combinations with two changed that the error paths and
\* the cost override need.
BuildArgs ==
    UNION {
        {Args(RawDir, day, Bazin, SNPCC, 1, tel, DefaultPattern) :
            tel \in TelConfigs}
        \cup {Args(d, day, Bazin, SNPCC, 1, DefaultTel, DefaultPattern) :
            d \in RawDirs}
        \cup {Args(RawDir, day, OtherMethod, SNPCC, 1, DefaultTel,
                   DefaultPattern),
              Args(RawDir, day, Bazin, OtherDataset, 1, DefaultTel,
                   DefaultPattern),
              Args(RawDir, day, Bazin, SNPCC, 2, DefaultTel, DefaultPattern),
              Args(RawDir, day, Bazin, SNPCC, 1, DefaultTel, OtherPattern),
              Args(EmptyDir, day, Bazin, OtherDataset, 1, DefaultTel,
                   DefaultPattern),
              Args(FewDir, day, OtherMethod, SNPCC, 1, DefaultTel,
                   DefaultPattern),
              Args(RawDir, day, Bazin, SNPCC, 2, CostTel, DefaultPattern)}
        : day \in Days}

(***************************************************************************)
(* The state machine                                                       *)
(***************************************************************************)

NoFrame == [op |-> "none"]
Done(status, ret) == [status |-> status, ret |-> ret]

\* the history when the call e finishes
Finish(e) == last_call' = e /\ repeated' = (e = last_call)

Init ==
    /\ self = SelfInit
    /\ dirs = {<<>>}
    /\ files = [p \in {} |-> <<>>]
    /\ pc = "idle"
    /\ frame = NoFrame
    /\ outcome = Done("none", <<>>)
    /\ last_call = NoFrame
    /\ repeated = FALSE
    /\ ncalls = 0

GetLimMjds(raw_data_dir) ==
    /\ pc = "idle"
    /\ ncalls < MaxCalls
    /\ LET r == get_lim_mjds(self, raw_data_dir)
       IN  /\ self' = r.self
           /\ outcome' = Done(r.status, r.ret)
    /\ Finish([op |-> "get_lim_mjds", raw_data_dir |-> raw_data_dir])
    /\ ncalls' = ncalls + 1
    /\ UNCHANGED <<dirs, files, pc, frame>>

CreateDailyFile(a) ==
    /\ pc = "idle"
    /\ ncalls < MaxCalls
    /\ LET r == create_daily_file([self |-> self, dirs |-> dirs,
                                   files |-> files],
                                  a.output_dir, a.day, a.header, a.get_cost)
       IN  /\ self' = r.st.self
           /\ dirs' = r.st.dirs
           /\ files' = r.st.files
           /\ outcome' = Done(r.status, <<>>)
    /\ Finish([op |-> "create_daily_file", args |-> a])
    /\ ncalls' = ncalls + 1
    /\ UNCHANGED <<pc, frame>>

BuildDone == [op |-> "build_one_epoch"]

\* the call up to the loop: it raises, or enters the loop
BuildBegin(args) ==
    /\ pc = "idle"
    /\ ncalls < MaxCalls
    /\ ncalls' = ncalls + 1
    /\ LET b == BuildBeginEff(self, args)
       IN  IF b.status = "running"
           THEN /\ pc' = "build"
                /\ frame' = b.fr
                /\ outcome' = Done("running", <<>>)
                /\ UNCHANGED <<last_call, repeated>>
           ELSE /\ pc' = "idle"
                /\ frame' = NoFrame
                /\ outcome' = Done(b.status, <<>>)
                /\ Finish(BuildDone)
    /\ UNCHANGED <<self, dirs, files>>

\* one iteration of the loop
BuildStep ==
    /\ pc = "build"
    /\ frame.i <= Len(frame.lc_list)
    /\ LET r == BuildStepEff([self |-> self, dirs |-> dirs, files |-> files],
                             frame)
       IN  /\ files' = r.st.files
           /\ IF r.status = "running"
              THEN /\ pc' = "build"
                   /\ frame' = r.fr
                   /\ UNCHANGED <<outcome, last_call, repeated>>
              ELSE /\ pc' = "idle"
                   /\ frame' = NoFrame
                   /\ outcome' = Done(r.status, <<>>)
                   /\ Finish(BuildDone)
    /\ UNCHANGED <<self, dirs, ncalls>>

\* the loop is over: the call returns
BuildReturn ==
    /\ pc = "build"
    /\ frame.i > Len(frame.lc_list)
    /\ pc' = "idle"
    /\ frame' = NoFrame
    /\ outcome' = Done("ok", <<>>)
    /\ Finish(BuildDone)
    /\ UNCHANGED <<self, dirs, files, ncalls>>

Next ==
    \/ \E d \in RawDirs : GetLimMjds(d)
    \/ \E a \in CreateArgs : CreateDailyFile(a)
    \/ \E args \in BuildArgs : BuildBegin(args)
    \/ BuildStep
    \/ BuildReturn

Spec == Init /\ [][Next]_vars

(***************************************************************************)
(* Reading a snapshot file back                                            *)
(***************************************************************************)

\* the pieces of s between the positions cuts, from position start on
RECURSIVE Pieces(_, _, _)
Pieces(s, cuts, start) ==
    IF cuts = {} THEN <<SubSeq(s, start, Len(s))>>
    ELSE LET k == CHOOSE x \in cuts : \A j \in cuts : x <= j
         IN  <<SubSeq(s, start, k - 1)>> \o Pieces(s, cuts \ {k}, k + 1)

\* s.split(c)
Split(s, c) == Pieces(s, {k \in DOMAIN s : s[k] = c}, 1)

\* the lines of a text, without their newlines
Lines(content) ==
    LET parts == Split(content, "\n")
    IN  IF parts[Len(parts)] = <<>> THEN SubSeq(parts, 1, Len(parts) - 1)
        ELSE parts

\* the space-delimited fields of a line
Fields(line) == Split(line, " ")

Content(fs, path) == IF path \in DOMAIN fs THEN fs[path] ELSE <<>>
State == [self |-> self, dirs |-> dirs, files |-> files]

\* the light curve the next iteration of the loop loads
CurrentLC ==
    load_snpcc_lc(frame.args.raw_data_dir \o frame.lc_list[frame.i]).lc

\* an iteration of the loop that raises nothing
Iteration ==
    /\ pc = "build"
    /\ frame.i <= Len(frame.lc_list)
    /\ pc' = "build"

\* the text the step appended to the file of the running call
Appended ==
    LET old == Content(files, frame.features_file)
        new == Content(files', frame.features_file)
    IN  SubSeq(new, Len(old) + 1, Len(new))

\* text is one line, a record of lc
IsRecordOf(text, lc) ==
    /\ text # <<>>
    /\ {k \in DOMAIN text : text[k] = "\n"} = {Len(text)}
    /\ Fields(SubSeq(text, 1, Len(text) - 1))[1] = Str(lc.id)

\* the step appended one record of lc to the file of the running call and
\* changed nothing else
AppendedRecordOf(lc) ==
    LET f == frame.features_file
        old == Content(files, f)
    IN  /\ f \in DOMAIN files'
        /\ \A p \in DOMAIN files' :
               p # f => p \in DOMAIN files /\ files'[p] = files[p]
        /\ Len(files'[f]) > Len(old)
        /\ SubSeq(files'[f], 1, Len(old)) = old
        /\ \A text \in {Appended} : IsRecordOf(text, lc)

\* (a) strictly more than four points at or before the cutoff and (b) a
\* fit of those points that is not empty and holds no 'None'
Eligible(lc, day) ==
    LET cutoff == self.min_epoch + day
        AtOrBefore(m) == m <= cutoff
        seen == SelectSeq(lc.mjd, AtOrBefore)
        fit == fit_bazin_all(lc, seen)
    IN  /\ Cardinality({k \in DOMAIN lc.mjd : lc.mjd[k] <= cutoff}) > 4
        /\ fit # <<>>
        /\ \A k \in DOMAIN fit : fit[k] # PyNone

(***************************************************************************)
(* C1: in every iteration of build_one_epoch that raises no error, a       *)
(* record of the object is appended to the day's file if and only if the   *)
(* object has strictly more than 4 points with mjd <= min_epoch + day and  *)
(* its fit over those points is non-empty and holds no failure sentinel;   *)
(* otherwise the files are left as they were.                              *)
(***************************************************************************)
C1_RecordIffEligible ==
    [][Iteration =>
        /\ AppendedRecordOf(CurrentLC)
              <=> Eligible(CurrentLC, frame.args.day_of_survey)
        /\ ~Eligible(CurrentLC, frame.args.day_of_survey) => files' = files
      ]_vars

\* A call for day 0 of the raw directory has gone through its loop: the
\* object with exactly four points has no record, the one with five has.
C1_Witness ==
    /\ pc = "build"
    /\ frame.i > Len(frame.lc_list)
    /\ frame.args.raw_data_dir = RawDir
    /\ frame.args.day_of_survey = 0
    /\ self.min_epoch = InitMinEpoch
    /\ frame.count_surv = 1
    /\ LET ls == Lines(Content(files, frame.features_file))
       IN  /\ \E k \in DOMAIN ls : Fields(ls[k])[1] = Str(lcC.id)
           /\ ~\E k \in DOMAIN ls : Fields(ls[k])[1] = Str(lcA.id)

\* a header line create_daily_file writes for header = 'Bazin'
IsBazinHeader(line) ==
    line \o <<"\n">> \in {BazinHeaderInit, BazinHeaderNoCost}

(***************************************************************************)
(* C2: in every snapshot file that begins with a Bazin header line, each   *)
(* record has exactly as many space-delimited fields as the header line.   *)
(***************************************************************************)
C2_FieldCountMatchesHeader ==
    \A p \in DOMAIN files :
        LET ls == Lines(files[p])
        IN  (Len(ls) >= 2 /\ IsBazinHeader(ls[1])) =>
                \A k \in 2..Len(ls) : Len(Fields(ls[k])) = Len(Fields(ls[1]))

(***************************************************************************)
(* C3: a call of build_one_epoch with cost computation enabled gets past   *)
(* the check of the telescope names only if every name of tel_names is a   *)
(* cost_<name> token of the active header.                                 *)
(***************************************************************************)
C3_EveryTelescopeNameInHeader ==
    (pc = "build" /\ frame.args.get_cost) =>
        \A k \in DOMAIN frame.args.tel_names :
            \E j \in DOMAIN Fields(Lines(self.bazin_header)[1]) :
                Fields(Lines(self.bazin_header)[1])[j]
                    = <<"c","o","s","t","_">> \o frame.args.tel_names[k]

(***************************************************************************)
(* C4: the queryable flag of a record that build_one_epoch appends is,     *)
(* with cost computation enabled, true if and only if the exposure time    *)
(* of at least one configured telescope is strictly below 7200, and with   *)
(* it disabled, the result of check_queryable.                             *)
(***************************************************************************)
C4_QueryableFlag ==
    [][(Iteration /\ files' # files) =>
        LET lc == CurrentLC
            a == frame.args
            expected ==
                IF a.get_cost
                THEN \E k \in DOMAIN a.tel_names :
                         calc_exp_time(lc, a.tel_sizes[k]) < 7200
                ELSE check_queryable(lc, self.rmag_lim, a.queryable_criteria)
        IN  \A text \in {Appended} :
                /\ IsRecordOf(text, lc)
                /\ \A fs \in {Fields(SubSeq(text, 1, Len(text) - 1))} :
                       fs[6] = StrBool(expected)
      ]_vars

\* With cost computation enabled, the file of the running call holds a
\* record of the object that check_queryable accepts under both criteria
\* and whose exposure times all equal the cap: its flag is False.
C4_Witness ==
    /\ pc = "build"
    /\ frame.args.get_cost
    /\ check_queryable(lcB, self.rmag_lim, frame.args.queryable_criteria)
    /\ LET ls == Lines(Content(files, frame.features_file))
       IN  \E k \in DOMAIN ls :
               /\ Len(Fields(ls[k])) >= 6
               /\ Fields(ls[k])[1] = Str(lcB.id)
               /\ Fields(ls[k])[6] = <<"F","a","l","s","e">>

\* the last finished call was create_daily_file
AfterCreate ==
    /\ pc = "idle"
    /\ last_call.op = "create_daily_file"

(***************************************************************************)
(* C5: after a call of create_daily_file with header = 'Bazin', whatever   *)
(* calls came before, the day's file is one header line; with get_cost     *)
(* true the line has cost_4m cost_8m right after last_rmag, with get_cost  *)
(* false it has no cost column.                                            *)
(***************************************************************************)
C5_HeaderChosenByGetCost ==
    (AfterCreate /\ last_call.args.header = Bazin) =>
        LET a == last_call.args
            ls == Lines(files[DailyFileName(a.output_dir, a.day)])
            fs == Fields(ls[1])
        IN  /\ Len(ls) = 1
            /\ a.get_cost =>
                  \E k \in 1..(Len(fs) - 2) :
                      /\ fs[k] = <<"l","a","s","t","_","r","m","a","g">>
                      /\ fs[k + 1] = <<"c","o","s","t","_","4","m">>
                      /\ fs[k + 2] = <<"c","o","s","t","_","8","m">>
            /\ ~a.get_cost =>
                  \A k \in DOMAIN fs :
                      Len(fs[k]) >= 5 => SubSeq(fs[k], 1, 5) # <<"c","o","s","t","_">>

(***************************************************************************)
(* C6: a call of create_daily_file with a header selector other than       *)
(* 'Bazin' ends without error and leaves the day's file holding exactly    *)
(* the header string the caller gave.                                      *)
(***************************************************************************)
C6_RawHeaderWritten ==
    (AfterCreate /\ last_call.args.header # Bazin) =>
        LET a == last_call.args
        IN  /\ outcome.status = "ok"
            /\ files[DailyFileName(a.output_dir, a.day)] = a.header

(***************************************************************************)
(* C7: in the state a call of create_daily_file leaves, calling it again   *)
(* with the same arguments and then build_one_epoch for that day ends as   *)
(* build_one_epoch alone does, with the same files; after the second       *)
(* create_daily_file with header = 'Bazin' the day's file is one header    *)
(* line.                                                                   *)
(***************************************************************************)
C7_ReinitialisationIdempotent ==
    AfterCreate =>
        LET a == last_call.args
            second == create_daily_file(State, a.output_dir, a.day, a.header,
                                       a.get_cost)
            f == DailyFileName(a.output_dir, a.day)
        IN  /\ a.header = Bazin =>
                  /\ Len(Lines(second.st.files[f])) = 1
                  /\ IsBazinHeader(Lines(second.st.files[f])[1])
            /\ \A b \in BuildArgs :
                  (b.time_domain_dir = a.output_dir /\ b.day_of_survey = a.day)
                  => LET once == build_one_epoch(State, b)
                         twice == build_one_epoch(second.st, b)
                     IN  /\ twice.status = once.status
                         /\ twice.st.files = once.st.files

\* create_daily_file ran twice with the same arguments and build_one_epoch
\* for that day has then gone through its loop: the file holds the one
\* header line and the records of this call.
C7_Witness ==
    /\ pc = "build"
    /\ frame.i > Len(frame.lc_list)
    /\ frame.count_surv > 0
    /\ repeated
    /\ last_call.op = "create_daily_file"
    /\ last_call.args.header = Bazin
    /\ last_call.args.output_dir = frame.args.time_domain_dir
    /\ last_call.args.day = frame.args.day_of_survey
    /\ frame.features_file
           = DailyFileName(last_call.args.output_dir, last_call.args.day)
    /\ Len(Lines(files[frame.features_file])) = 1 + frame.count_surv

(***************************************************************************)
(* C8: a call of build_one_epoch with an unsupported dataset name or       *)
(* feature method is never in its loop with a light curve loaded, and      *)
(* never at the end of its loop.                                           *)
(***************************************************************************)
C8_ConfigurationErrorBeforeProcessing ==
    (pc = "build"
     /\ (frame.args.dataset # SNPCC \/ frame.args.feature_method # Bazin))
    => /\ frame.loads = 0
       /\ frame.i <= Len(frame.lc_list)

\* every observation time of every recognized file of a directory
AllMjd(d) ==
    UNION {{f.lc.mjd[k] : k \in DOMAIN f.lc.mjd} :
           f \in {g \in RawFiles :
                    \E k \in DOMAIN ListDir(d) :
                        /\ Contains(ListDir(d)[k], <<"D","E","S","_","S","N">>)
                        /\ g.path = d \o ListDir(d)[k]}}

GlobalMin(d) == CHOOSE m \in AllMjd(d) : \A x \in AllMjd(d) : m <= x
GlobalMax(d) == CHOOSE m \in AllMjd(d) : \A x \in AllMjd(d) : m >= x

(***************************************************************************)
(* C9: min_epoch <= max_epoch in every state; and when get_lim_mjds        *)
(* returns, its result is [m, M], the least and the greatest observation   *)
(* time over all recognized files, min_epoch = m and max_epoch = M.        *)
(***************************************************************************)
C9_EpochLimits ==
    /\ self.min_epoch <= self.max_epoch
    /\ (pc = "idle" /\ last_call.op = "get_lim_mjds"
        /\ outcome.status = "ok")
       => LET d == last_call.raw_data_dir
          IN  /\ outcome.ret = <<GlobalMin(d), GlobalMax(d)>>
              /\ self.min_epoch = GlobalMin(d)
              /\ self.max_epoch = GlobalMax(d)

\* get_lim_mjds has returned for a directory whose first observation is
\* later than the default min_epoch
C9_Witness ==
    /\ pc = "idle"
    /\ last_call.op = "get_lim_mjds"
    /\ outcome.status = "ok"
    /\ self.min_epoch > InitMinEpoch
    /\ outcome.ret = <<self.min_epoch, self.max_epoch>>

(***************************************************************************)
(* C10: a call of build_one_epoch that follows create_daily_file for the   *)
(* same directory and day writes to the file create_daily_file created,    *)
(* whatever fname_pattern is.                                              *)
(***************************************************************************)
C10_BuildWritesToCreatedFile ==
    (pc = "build"
     /\ last_call.op = "create_daily_file"
     /\ last_call.args.output_dir = frame.args.time_domain_dir
     /\ last_call.args.day = frame.args.day_of_survey)
    => frame.features_file
           = DailyFileName(frame.args.time_domain_dir,
                           frame.args.day_of_survey)

====
